---- MODULE Spec2Model ----
(***************************************************************************)
(* A model of traits.py: the trait string codec, the discovery of pack     *)
(* files, the master/per-language trait files, the propagation of traits   *)
(* onto translated cards and the text bridge.                              *)
(*                                                                         *)
(* A Python string is a sequence of one-character strings, so that split,  *)
(* strip, join and the ordering of strings are computed, not assumed.      *)
(***************************************************************************)
EXTENDS Integers, Sequences, FiniteSets, TLC

VARIABLES
    \* the codec on its own
    c_pc, c_in, c_str, c_list, c_out,
    \* file discovery on its own: the directory tree under root, the files of
    \* the working directory, the arguments and the result
    g_pc, g_tree, g_cwd, g_cycles, g_result,
    \* the files: the English packs and the translated packs (path -> list of
    \* cards), the trait files (path -> list of entries), the text files
    pack_en, pack_tr, traits_fs, text_fs,
    \* the major version of the interpreter that runs the script
    py,
    \* the last call: its name and arguments, how it ended, the pack files it
    \* wrote (in order) and the files as they were before it
    op, err, written, pre,
    \* how far the pipeline of main has come with the English packs as they are
    pipeline

codec_vars == <<c_pc, c_in, c_str, c_list, c_out>>

files_vars == <<g_pc, g_tree, g_cwd, g_cycles, g_result>>

fs_vars == <<pack_en, pack_tr, traits_fs, text_fs, py>>

call_vars == <<op, err, written, pre, pipeline>>

main_vars == <<fs_vars, call_vars>>

vars == <<codec_vars, files_vars, main_vars>>

(***************************************************************************)
(* Python strings                                                          *)
(***************************************************************************)

\* The code point of a character: Python orders strings by code point.
Ord(c) ==
    CASE c = "\t" -> 9
      [] c = "\n" -> 10
      [] c = " "  -> 32
      [] c = "."  -> 46
      [] c = "A"  -> 65
      [] c = "B"  -> 66
      [] c = "a"  -> 97
      [] c = "b"  -> 98
      [] c = "c"  -> 99
      [] c = "x"  -> 120
      [] c = "y"  -> 121

Range(seq) == {seq[i] : i \in DOMAIN seq}

\* str.isspace of one character.
IsSpace(c) == c \in {" ", "\t", "\n"}

\* a < b for two Python strings.
RECURSIVE StrLess(_, _)
StrLess(a, b) ==
    IF b = <<>> THEN FALSE
    ELSE IF a = <<>> THEN TRUE
    ELSE IF Head(a) = Head(b) THEN StrLess(Tail(a), Tail(b))
    ELSE Ord(Head(a)) < Ord(Head(b))

RECURSIVE lstrip(_)
lstrip(s) ==
    IF s = <<>> THEN s
    ELSE IF IsSpace(Head(s)) THEN lstrip(Tail(s))
    ELSE s

RECURSIVE rstrip(_)
rstrip(s) ==
    IF s = <<>> THEN s
    ELSE IF IsSpace(s[Len(s)]) THEN rstrip(SubSeq(s, 1, Len(s) - 1))
    ELSE s

\* str.strip()
strip(s) == rstrip(lstrip(s))

\* str.split(sep) for a one-character separator: always at least one piece.
RECURSIVE split(_, _)
split(s, sep) ==
    IF \A i \in 1..Len(s) : s[i] # sep THEN <<s>>
    ELSE LET i == CHOOSE k \in 1..Len(s) :
                      s[k] = sep /\ \A j \in 1..(k - 1) : s[j] # sep
         IN  <<SubSeq(s, 1, i - 1)>> \o split(SubSeq(s, i + 1, Len(s)), sep)

\* sep.join(list)
RECURSIVE join(_, _)
join(sep, list) ==
    IF list = <<>> THEN <<>>
    ELSE IF Len(list) = 1 THEN list[1]
    ELSE list[1] \o sep \o join(sep, Tail(list))

\* [f(x) for x in list if x.strip()] with f = strip
RECURSIVE StripKept(_)
StripKept(list) ==
    IF list = <<>> THEN <<>>
    ELSE IF strip(Head(list)) # <<>>
         THEN <<strip(Head(list))>> \o StripKept(Tail(list))
         ELSE StripKept(Tail(list))

(***************************************************************************)
(* The trait string codec                                                  *)
(***************************************************************************)

\* The comprehension with the strip of the kept pieces forgotten.
split_traits_unstripped(traits) ==
    LET NotBlank(x) == strip(x) # <<>>
    IN  SelectSeq(split(traits, "."), NotBlank)

_split_traits(traits) == StripKept(split(traits, "."))

_merge_traits(traits) ==
    IF traits = <<>> THEN <<>>
    ELSE join(<<".", " ">>, traits) \o <<".">>

(***************************************************************************)
(* File discovery                                                          *)
(*                                                                         *)
(* A directory tree two levels deep: tree.isdir says whether root is a     *)
(* directory, tree.entries maps each name directly in root to a file or a  *)
(* directory with the set of names directly in it.  A path is the sequence *)
(* of its components.  os.listdir returns the names of a directory in an   *)
(* arbitrary order: ls maps each directory (<<>> for root) to the order    *)
(* it lists them in.                                                       *)
(***************************************************************************)

\* os.path.splitext(name)[-1], for the names that occur.
SplitExt(name) ==
    CASE name \in {"a.json", "b.json", "stray.json", "traits.json"} -> ".json"
      [] name \in {"B.JSON"} -> ".JSON"
      [] name \in {"c.txt", "notes.txt", "ko.txt"} -> ".txt"
      [] OTHER -> ""

\* str.lower(), for the extensions that occur.
Lower(ext) == IF ext = ".JSON" THEN ".json" ELSE ext

\* os.path.splitext(name)[-1].lower() == '.json'
HasJsonExt(name) == Lower(SplitExt(name)) = ".json"

File == [kind |-> "file"]
Dir(names) == [kind |-> "dir", names |-> names]

Orders(S) ==
    {o \in [1..Cardinality(S) -> S] : \A x \in S : \E i \in DOMAIN o : o[i] = x}

SubDirs(tree) == {n \in DOMAIN tree.entries : tree.entries[n].kind = "dir"}

\* Every way os.listdir can order the directories of the tree.
Listings(tree) ==
    {[root |-> r, sub |-> s] :
        r \in Orders(DOMAIN tree.entries),
        s \in {f \in [SubDirs(tree) -> UNION {Orders(tree.entries[d].names) : d \in SubDirs(tree)}] :
                 \A d \in SubDirs(tree) : f[d] \in Orders(tree.entries[d].names)}}

Ok(files) == [err |-> "none", files |-> files]
\* The errors of os.listdir carry the names Python 3 gives them (Python 2
\* raises OSError with the same errno).
Raise(e) == [err |-> e, files |-> <<>>]

\* [os.path.join(cycle, pack) for pack in listing if pack is a .json name]
RECURSIVE JsonPacks(_, _)
JsonPacks(cycle, listing) ==
    IF listing = <<>> THEN <<>>
    ELSE IF HasJsonExt(Head(listing))
         THEN <<(<<cycle, Head(listing)>>)>> \o JsonPacks(cycle, Tail(listing))
         ELSE JsonPacks(cycle, Tail(listing))

\* The loop over the cycles; isfile(cycle) is asked of the working directory.
RECURSIVE WalkCycles(_, _, _, _, _)
WalkCycles(tree, cwd, cycles, ls, json_files) ==
    IF cycles = <<>> THEN Ok(json_files)
    ELSE LET cycle == Head(cycles) IN
         IF cycle \in cwd /\ HasJsonExt(cycle)
         THEN WalkCycles(tree, cwd, Tail(cycles), ls, Append(json_files, <<cycle>>))
         ELSE IF cycle \notin DOMAIN tree.entries THEN Raise("FileNotFoundError")
         ELSE IF tree.entries[cycle].kind = "file" THEN Raise("NotADirectoryError")
         ELSE WalkCycles(tree, cwd, Tail(cycles), ls,
                         json_files \o JsonPacks(cycle, ls.sub[cycle]))

\* cycles = <<>> stands for None and for the empty list: both are falsy.
get_json_files(tree, cwd, cycles, ls) ==
    IF ~tree.isdir THEN Raise("IOError")
    ELSE WalkCycles(tree, cwd, IF cycles = <<>> THEN ls.root ELSE cycles, ls, <<>>)

(***************************************************************************)
(* Files                                                                   *)
(***************************************************************************)

PACK_PATH == "pack"
TRANSLATION_PATH == "translations"
TRAITS_FILENAME == "traits.json"

\* The languages that have a directory under translations/.
LangDirs == {"ko"}

MasterPath == <<TRAITS_FILENAME>>
TransTraitsPath(code) == <<TRANSLATION_PATH, code, TRAITS_FILENAME>>

\* open(path, 'w') and write: the file holds exactly what was written.
WriteFile(fs, path, content) ==
    [p \in DOMAIN fs \cup {path} |-> IF p = path THEN content ELSE fs[p]]

\* What a trait file holds when it holds no byte at all: not a list of
\* entries, and not JSON (json.load raises ValueError on it).
EmptyFile == <<[bytes |-> 0]>>

\* The file is there and json.load reads a list from it.
IsJson(fs, path) == path \in DOMAIN fs /\ fs[path] # EmptyFile

\* io.open(path, 'w', encoding='utf-8'), json.dumps(data, ensure_ascii=False,
\* indent=4) and fp.write(string).  The open truncates the file.  Under
\* Python 2 json.dumps gives a unicode string only if the data holds a
\* string: for the empty list it gives the byte string '[]', which the text
\* file refuses (TypeError), and the file stays with no byte in it.
WriteJson(fs, path, data, version) ==
    IF version = 2 /\ data = <<>>
    THEN [err |-> "TypeError", fs |-> WriteFile(fs, path, EmptyFile)]
    ELSE [err |-> "none", fs |-> WriteFile(fs, path, data)]

\* The directory tree of a set of pack files cycle/pack.
TreeOf(packs) ==
    [isdir |-> TRUE,
     entries |-> [c \in {p[1] : p \in DOMAIN packs} |->
                    Dir({p[2] : p \in {q \in DOMAIN packs : q[1] = c}})]]

\* The regular files of the working directory, by name.
CwdFiles(tfs, xfs) ==
    {p[1] : p \in {q \in DOMAIN tfs \cup DOMAIN xfs : Len(q) = 1}}

Codes(data) == {data[i].code : i \in DOMAIN data}

(***************************************************************************)
(* make_placeholder                                                        *)
(***************************************************************************)

\* list(traits) in an order of the set's own, here the greatest first.
RECURSIVE ListedStrings(_)
ListedStrings(S) ==
    IF S = {} THEN <<>>
    ELSE LET m == CHOOSE x \in S : \A y \in S \ {x} : StrLess(y, x)
         IN  <<m>> \o ListedStrings(S \ {m})

\* sorted(list(traits)) of a set of strings
RECURSIVE SortedStrings(_)
SortedStrings(S) ==
    IF S = {} THEN <<>>
    ELSE LET m == CHOOSE x \in S : \A y \in S \ {x} : StrLess(x, y)
         IN  <<m>> \o SortedStrings(S \ {m})

\* The traits strings themselves, not split into traits.
TraitsOfCardsUnsplit(data) ==
    {data[i].traits : i \in {j \in DOMAIN data : "traits" \in DOMAIN data[j]}}

\* The traits of the cards of one pack file that have a traits field.
TraitsOfCards(data) ==
    UNION {Range(_split_traits(data[i].traits)) :
              i \in {j \in DOMAIN data : "traits" \in DOMAIN data[j]}}

\* The outcome of make_placeholder: the master trait file is written last.
make_placeholder(en, tfs, xfs, ls, version) ==
    LET found == get_json_files(TreeOf(en), CwdFiles(tfs, xfs), <<>>, ls)
    IN  IF found.err # "none" THEN [err |-> found.err, traits_fs |-> tfs]
        ELSE LET traits == UNION {TraitsOfCards(en[f]) : f \in Range(found.files)}
                 sorted == SortedStrings(traits)
                 data   == [i \in DOMAIN sorted |-> [code |-> sorted[i], name |-> sorted[i]]]
                 wrote  == WriteJson(tfs, MasterPath, data, version)
             IN  [err |-> wrote.err, traits_fs |-> wrote.fs]

(***************************************************************************)
(* update_placeholder                                                      *)
(***************************************************************************)

\* list.sort(key=code): a stable sort, by insertion.
RECURSIVE InsertByCode(_, _)
InsertByCode(sorted, item) ==
    IF sorted = <<>> THEN <<item>>
    ELSE IF StrLess(item.code, Head(sorted).code) THEN <<item>> \o sorted
    ELSE <<Head(sorted)>> \o InsertByCode(Tail(sorted), item)

RECURSIVE SortByCode(_)
SortByCode(data) ==
    IF data = <<>> THEN <<>>
    ELSE InsertByCode(SortByCode(SubSeq(data, 1, Len(data) - 1)), data[Len(data)])

\* Every master entry, whether its code is known or not.
AllItems(data, trans_codes) == data

\* The master entries whose code is not one of trans_codes, in master order.
RECURSIVE NewItems(_, _)
NewItems(data, trans_codes) ==
    IF data = <<>> THEN <<>>
    ELSE IF Head(data).code \notin trans_codes
         THEN <<Head(data)>> \o NewItems(Tail(data), trans_codes)
         ELSE NewItems(Tail(data), trans_codes)

\* The file of the language is read before the master file; either read
\* fails on a file that is not JSON, before anything is written.
update_placeholder(tfs, code, version) ==
    IF MasterPath \notin DOMAIN tfs THEN [err |-> "IOError", traits_fs |-> tfs]
    ELSE IF code \notin LangDirs THEN [err |-> "IOError", traits_fs |-> tfs]
    ELSE LET trans_traits_path == TransTraitsPath(code) IN
         IF trans_traits_path \in DOMAIN tfs /\ ~IsJson(tfs, trans_traits_path)
         THEN [err |-> "ValueError", traits_fs |-> tfs]
         ELSE IF ~IsJson(tfs, MasterPath) THEN [err |-> "ValueError", traits_fs |-> tfs]
         ELSE LET trans_data  == IF trans_traits_path \in DOMAIN tfs
                                 THEN tfs[trans_traits_path] ELSE <<>>
                  trans_codes == Codes(trans_data)
                  merged      == trans_data \o NewItems(tfs[MasterPath], trans_codes)
                  wrote       == WriteJson(tfs, trans_traits_path, SortByCode(merged), version)
              IN  [err |-> wrote.err, traits_fs |-> wrote.fs]

(***************************************************************************)
(* update_traits                                                           *)
(***************************************************************************)

\* traits_map: each code to the name of its last entry.
TraitsMap(data) ==
    [c \in Codes(data) |->
        data[CHOOSE i \in DOMAIN data :
                 data[i].code = c /\ \A j \in DOMAIN data : data[j].code = c => j <= i].name]

\* code_en.index(code): the first English card with the code.
IndexOf(data_en, code) ==
    CHOOSE i \in DOMAIN data_en :
        data_en[i].code = code /\ \A j \in 1..(i - 1) : data_en[j].code # code

\* The guard forgotten: no card is kept.
KeepsNothing(no_overwrite, item, item_en) == FALSE

\* no_overwrite and item['traits'] != item_en['traits']
KeepsWritten(no_overwrite, item, item_en) ==
    no_overwrite /\ item.traits # item_en.traits

\* The assignment with the card's name lost.
SetTraitsOnly(item, traits) == [code |-> item.code, traits |-> traits, name |-> "?"]

\* item['traits'] = _merge_traits(traits): nothing else of the card changes.
SetTraits(item, traits) == [item EXCEPT !.traits = traits]

\* The loop over the cards of one translated pack file.
RECURSIVE UpdateCards(_, _, _, _, _, _)
UpdateCards(items, data_en, traits_map, no_overwrite, done, changed) ==
    IF items = <<>> THEN [err |-> "none", data |-> done, changed |-> changed]
    ELSE LET item == Head(items)
             skip == UpdateCards(Tail(items), data_en, traits_map, no_overwrite,
                                 Append(done, item), changed)
         IN  IF "traits" \notin DOMAIN item THEN skip
             ELSE IF item.code \notin Codes(data_en) THEN skip
             ELSE LET item_en == data_en[IndexOf(data_en, item.code)]
                  IN  IF "traits" \notin DOMAIN item_en
                      THEN [err |-> "KeyError: 'traits'", data |-> done, changed |-> changed]
                      ELSE IF KeepsWritten(no_overwrite, item, item_en) THEN skip
                      ELSE LET traits_en == _split_traits(item_en.traits)
                           IN  IF \E i \in DOMAIN traits_en : traits_en[i] \notin DOMAIN traits_map
                               THEN [err |-> "KeyError: trait code", data |-> done,
                                     changed |-> changed]
                               ELSE LET traits == [i \in DOMAIN traits_en |->
                                                       traits_map[traits_en[i]]]
                                    IN  UpdateCards(Tail(items), data_en, traits_map,
                                            no_overwrite,
                                            Append(done, SetTraits(item, _merge_traits(traits))),
                                            TRUE)

\* The loop with the write moved to where a failure passes through it too.
RECURSIVE UpdateFilesAlwaysWriting(_, _, _, _, _, _)
UpdateFilesAlwaysWriting(jsons, en, tr, traits_map, no_overwrite, wrote) ==
    IF jsons = <<>> THEN [err |-> "none", pack_tr |-> tr, written |-> wrote]
    ELSE LET file == Head(jsons)
             res  == UpdateCards(tr[file], en[file], traits_map, no_overwrite, <<>>, FALSE)
             rest == SubSeq(tr[file], Len(res.data) + 1, Len(tr[file]))
         IN  IF res.err # "none"
             THEN [err |-> res.err,
                   pack_tr |-> IF res.changed THEN WriteFile(tr, file, res.data \o rest) ELSE tr,
                   written |-> IF res.changed THEN Append(wrote, file) ELSE wrote]
             ELSE IF res.changed
                  THEN UpdateFilesAlwaysWriting(Tail(jsons), en, WriteFile(tr, file, res.data),
                                                traits_map, no_overwrite, Append(wrote, file))
                  ELSE UpdateFilesAlwaysWriting(Tail(jsons), en, tr, traits_map,
                                                no_overwrite, wrote)

\* The loop over the pack files: a file is written as soon as it is done.
RECURSIVE UpdateFiles(_, _, _, _, _, _)
UpdateFiles(jsons, en, tr, traits_map, no_overwrite, wrote) ==
    IF jsons = <<>> THEN [err |-> "none", pack_tr |-> tr, written |-> wrote]
    ELSE LET file == Head(jsons)
             res  == UpdateCards(tr[file], en[file], traits_map, no_overwrite, <<>>, FALSE)
         IN  IF res.err # "none" THEN [err |-> res.err, pack_tr |-> tr, written |-> wrote]
             ELSE IF res.changed
                  THEN UpdateFiles(Tail(jsons), en, WriteFile(tr, file, res.data),
                                   traits_map, no_overwrite, Append(wrote, file))
                  ELSE UpdateFiles(Tail(jsons), en, tr, traits_map, no_overwrite, wrote)

\* [x for x in json files if os.path.isfile(os.path.join(PACK_PATH, x))]
RECURSIVE WithEnglish(_, _)
WithEnglish(files, en) ==
    IF files = <<>> THEN <<>>
    ELSE IF Head(files) \in DOMAIN en
         THEN <<Head(files)>> \o WithEnglish(Tail(files), en)
         ELSE WithEnglish(Tail(files), en)

update_traits(en, tr, tfs, xfs, code, cycles, no_overwrite, ls) ==
    IF TransTraitsPath(code) \notin DOMAIN tfs
    THEN [err |-> "IOError", pack_tr |-> tr, written |-> <<>>]
    ELSE IF ~IsJson(tfs, TransTraitsPath(code))
    THEN [err |-> "ValueError", pack_tr |-> tr, written |-> <<>>]
    ELSE LET traits_map == TraitsMap(tfs[TransTraitsPath(code)])
             found == get_json_files(TreeOf(tr), CwdFiles(tfs, xfs), cycles, ls)
         IN  IF found.err # "none"
             THEN [err |-> found.err, pack_tr |-> tr, written |-> <<>>]
             ELSE UpdateFiles(WithEnglish(found.files, en), en, tr, traits_map,
                              no_overwrite, <<>>)

(***************************************************************************)
(* The text bridge                                                         *)
(***************************************************************************)

\* '%s\t%s\n' % (code, name) for every entry, in file order
RECURSIVE TextOf(_)
TextOf(data) ==
    IF data = <<>> THEN <<>>
    ELSE Head(data).code \o <<"\t">> \o Head(data).name \o <<"\n">> \o TextOf(Tail(data))

json2txt(tfs, xfs, path_json, path_text) ==
    IF path_json \notin DOMAIN tfs THEN [err |-> "IOError", text_fs |-> xfs]
    ELSE IF ~IsJson(tfs, path_json) THEN [err |-> "ValueError", text_fs |-> xfs]
    ELSE [err |-> "none", text_fs |-> WriteFile(xfs, path_text, TextOf(tfs[path_json]))]

\* The lines of a text file, each with its line end (the last may lack one).
RECURSIVE Lines(_)
Lines(text) ==
    IF text = <<>> THEN <<>>
    ELSE IF \A i \in 1..Len(text) : text[i] # "\n" THEN <<text>>
    ELSE LET i == CHOOSE k \in 1..Len(text) :
                      text[k] = "\n" /\ \A j \in 1..(k - 1) : text[j] # "\n"
         IN  <<SubSeq(text, 1, i)>> \o Lines(SubSeq(text, i + 1, Len(text)))

\* The loop with the name taken as it stands on the line, line end included.
RECURSIVE ReadLinesUnstripped(_, _)
ReadLinesUnstripped(lines, data) ==
    IF lines = <<>> THEN [err |-> "none", data |-> data]
    ELSE LET line == Head(lines) IN
         IF strip(line) = <<>> THEN ReadLinesUnstripped(Tail(lines), data)
         ELSE LET parts == split(line, "\t") IN
              IF Len(parts) # 2 THEN [err |-> "ValueError", data |-> data]
              ELSE LET code == strip(parts[1])
                       name == parts[2]
                   IN  IF code \in DOMAIN data
                       THEN ReadLinesUnstripped(Tail(lines), [data EXCEPT ![code] = name])
                       ELSE ReadLinesUnstripped(Tail(lines), data)

\* The loop over the lines: data maps each known code to its name.
RECURSIVE ReadLines(_, _)
ReadLines(lines, data) ==
    IF lines = <<>> THEN [err |-> "none", data |-> data]
    ELSE LET line == Head(lines) IN
         IF strip(line) = <<>> THEN ReadLines(Tail(lines), data)
         ELSE LET parts == split(line, "\t") IN
              IF Len(parts) # 2 THEN [err |-> "ValueError", data |-> data]
              ELSE LET code == strip(parts[1])
                       name == strip(parts[2])
                   IN  IF code \in DOMAIN data
                       THEN ReadLines(Tail(lines), [data EXCEPT ![code] = name])
                       ELSE ReadLines(Tail(lines), data)

\* The order of two code/name dictionaries (Python 2): by code, then by name.
DictLess(a, b) ==
    \/ StrLess(a.code, b.code)
    \/ a.code = b.code /\ StrLess(a.name, b.name)

RECURSIVE SortedDicts(_)
SortedDicts(S) ==
    IF S = {} THEN <<>>
    ELSE LET m == CHOOSE x \in S : \A y \in S \ {x} : DictLess(x, y)
         IN  <<m>> \o SortedDicts(S \ {m})

\* Python 3 does not order dictionaries: sorting two or more of them raises,
\* before the file is opened for writing.
txt2json(tfs, xfs, path_json, path_text, version) ==
    IF path_json \notin DOMAIN tfs THEN [err |-> "IOError", traits_fs |-> tfs]
    ELSE IF ~IsJson(tfs, path_json) THEN [err |-> "ValueError", traits_fs |-> tfs]
    ELSE IF path_text \notin DOMAIN xfs THEN [err |-> "IOError", traits_fs |-> tfs]
    ELSE LET data == TraitsMap(tfs[path_json])
             read == ReadLines(Lines(xfs[path_text]), data)
             list == {[code |-> c, name |-> read.data[c]] : c \in DOMAIN read.data}
         IN  IF read.err # "none" THEN [err |-> read.err, traits_fs |-> tfs]
             ELSE IF version = 3 /\ Cardinality(list) >= 2
                  THEN [err |-> "TypeError", traits_fs |-> tfs]
                  ELSE LET wrote == WriteJson(tfs, path_json, SortedDicts(list), version)
                       IN  [err |-> wrote.err, traits_fs |-> wrote.fs]

(***************************************************************************)
(* The codec on its own: a list of names is merged, split and merged again *)
(***************************************************************************)

MaxNameLen == 2
MaxTraits == 2

CodecChars == {"a", ".", " "}

RECURSIVE StringsUpTo(_, _)
StringsUpTo(chars, n) ==
    IF n = 0 THEN {<<>>}
    ELSE LET shorter == StringsUpTo(chars, n - 1)
         IN  shorter \cup {Append(s, c) : s \in shorter, c \in chars}

RECURSIVE ListsUpTo(_, _)
ListsUpTo(items, n) ==
    IF n = 0 THEN {<<>>}
    ELSE LET shorter == ListsUpTo(items, n - 1)
         IN  shorter \cup {Append(l, x) : l \in shorter, x \in items}

CodecNames == StringsUpTo(CodecChars, MaxNameLen)

MainIdle ==
    /\ pack_en = <<>>
    /\ pack_tr = <<>>
    /\ traits_fs = <<>>
    /\ text_fs = <<>>
    /\ py = 3
    /\ op = [name |-> "off"]
    /\ err = "none"
    /\ written = <<>>
    /\ pre = <<>>
    /\ pipeline = "none"

FilesIdle ==
    /\ g_pc = "off"
    /\ g_tree = [isdir |-> FALSE, entries |-> <<>>]
    /\ g_cwd = {}
    /\ g_cycles = <<>>
    /\ g_result = Raise("none")

CodecIdle ==
    /\ c_pc = "off"
    /\ c_in = <<>>
    /\ c_str = <<>>
    /\ c_list = <<>>
    /\ c_out = <<>>

CodecStart ==
    /\ c_pc = "start"
    /\ c_in \in ListsUpTo(CodecNames, MaxTraits)
    /\ c_str = <<>>
    /\ c_list = <<>>
    /\ c_out = <<>>

CodecMerge ==
    /\ c_pc = "start"
    /\ c_str' = _merge_traits(c_in)
    /\ c_pc' = "merged"
    /\ UNCHANGED <<c_in, c_list, c_out, files_vars, main_vars>>

CodecSplit ==
    /\ c_pc = "merged"
    /\ c_list' = _split_traits(c_str)
    /\ c_pc' = "split"
    /\ UNCHANGED <<c_in, c_str, c_out, files_vars, main_vars>>

CodecRemerge ==
    /\ c_pc = "split"
    /\ c_out' = _merge_traits(c_list)
    /\ c_pc' = "done"
    /\ UNCHANGED <<c_in, c_str, c_list, files_vars, main_vars>>

CodecNext == CodecMerge \/ CodecSplit \/ CodecRemerge

CodecInit == CodecStart /\ FilesIdle /\ MainIdle

SpecCodec == CodecInit /\ [][CodecNext]_vars

\* A name as _split_traits produces them: not empty, no dot, no white space
\* at either end.
WellFormedName(x) ==
    /\ x # <<>>
    /\ \A i \in 1..Len(x) : x[i] # "."
    /\ ~IsSpace(x[1])
    /\ ~IsSpace(x[Len(x)])

\* C6 as stated: for every list L of names, merge(split(merge(L))) = merge(L).
C6_Original ==
    c_pc = "done" => c_out = c_str

\* C6 (amended): for every list L of well-formed trait names (not empty, no
\* dot, no white space at either end), split_traits(merge_traits(L)) = L and
\* merge_traits(split_traits(merge_traits(L))) = merge_traits(L); the empty
\* list merges to the empty string and the empty string splits to the empty
\* list.
C6_CodecStable ==
    /\ (c_pc = "done" /\ \A i \in 1..Len(c_in) : WellFormedName(c_in[i]))
          => (c_list = c_in /\ c_out = c_str)
    /\ (c_pc = "done" /\ c_in = <<>>)
          => (c_str = <<>> /\ c_list = <<>> /\ c_out = <<>>)

C6_Witness ==
    /\ c_pc = "done"
    /\ Len(c_in) = 2
    /\ \A i \in 1..Len(c_in) : WellFormedName(c_in[i])
    /\ c_out = c_str
    /\ c_str # <<>>

(***************************************************************************)
(* File discovery on its own                                               *)
(***************************************************************************)

TopNames == {"core", "stray.json", "notes.txt"}
SubNames == {"a.json", "B.JSON", "c.txt"}

Entries == {File} \cup {Dir(S) : S \in SUBSET SubNames}

Trees ==
    {[isdir |-> d, entries |-> e] :
        d \in BOOLEAN,
        e \in UNION {[T -> Entries] : T \in SUBSET TopNames}}

CycleArgs ==
    {<<>>} \cup {<<n>> : n \in TopNames}
           \cup {<<n, m>> : n \in {"core"}, m \in TopNames \ {"core"}}

FilesStart ==
    /\ g_pc = "start"
    /\ g_tree \in Trees
    /\ g_tree.isdir = FALSE => g_tree.entries = <<>>
    /\ g_cwd \in SUBSET {"stray.json"}
    /\ g_cycles \in CycleArgs
    /\ g_result = Raise("none")

GetJsonFiles ==
    /\ g_pc = "start"
    /\ \E ls \in Listings(g_tree) :
          g_result' = get_json_files(g_tree, g_cwd, g_cycles, ls)
    /\ g_pc' = "done"
    /\ UNCHANGED <<g_tree, g_cwd, g_cycles, codec_vars, main_vars>>

FilesNext == GetJsonFiles

FilesInit == FilesStart /\ CodecIdle /\ MainIdle

SpecFiles == FilesInit /\ [][FilesNext]_vars

\* The .json files directly in root and directly in each directory of root.
ExpectedJsonFiles(tree) ==
    {<<n>> : n \in {m \in DOMAIN tree.entries :
                       tree.entries[m].kind = "file" /\ HasJsonExt(m)}}
    \cup UNION {{<<d, f>> : f \in {x \in tree.entries[d].names : HasJsonExt(x)}} :
                   d \in SubDirs(tree)}

\* C7: for an existing directory root and no cycle subset, get_json_files
\* returns, without an error and whatever the working directory is, exactly
\* the .json files directly in root and directly in each directory of root
\* (none of them twice).
C7_Discovery ==
    (g_pc = "done" /\ g_tree.isdir /\ g_cycles = <<>>)
      => /\ g_result.err = "none"
         /\ Range(g_result.files) = ExpectedJsonFiles(g_tree)
         /\ Len(g_result.files) = Cardinality(ExpectedJsonFiles(g_tree))

(***************************************************************************)
(* The script as a whole: any of its operations, called in any order on    *)
(* the files of a small repository                                         *)
(***************************************************************************)

P1 == <<"core", "a.json">>
P2 == <<"dwl", "b.json">>

CardWith(code, traits) == [code |-> code, name |-> "n", traits |-> traits]
CardWithout(code) == [code |-> code, name |-> "n"]

\* Every list that holds, in the order of codes, at most one of the cards of
\* each code.
RECURSIVE FilesOver(_, _)
FilesOver(codes, cards) ==
    IF codes = <<>> THEN {<<>>}
    ELSE LET rest == FilesOver(Tail(codes), cards)
         IN  rest \cup {<<c>> \o r : c \in {x \in cards : x.code = Head(codes)}, r \in rest}

\* The cards an English pack file is made of.
EnCards ==
    {CardWithout("01001"),
     CardWith("01001", <<"a", ".">>),
     CardWith("01001", <<"a", ".", " ", "b", ".">>),
     CardWith("01002", <<"b", ".">>),
     CardWith("02001", <<"a", ".", " ", "b", ".">>)}

\* The cards a translated pack file is made of.
TrCards ==
    {CardWithout("01001"),
     CardWith("01001", <<"a", ".">>),
     CardWith("01001", <<"A", ".">>),
     CardWith("01002", <<"b", ".">>),
     CardWith("01002", <<"A", ".">>),
     CardWith("02001", <<"a", ".", " ", "b", ".">>),
     CardWith("02001", <<"A", ".", " ", "B", ".">>)}

\* pack/core/a.json is there; pack/dwl/b.json may be missing.
PacksOver(cards) ==
    {[p \in {P1} |-> f] : f \in FilesOver(<<"01001", "01002">>, cards)}
    \cup {[p \in {P1, P2} |-> IF p = P1 THEN f ELSE g] :
             f \in FilesOver(<<"01001", "01002">>, cards),
             g \in FilesOver(<<"02001">>, cards) \ {<<>>}}

Entry(code, name) == [code |-> code, name |-> name]

\* The trait files a run starts from: each absent, or with unique codes
\* sorted by code (the empty list is one).
StartTraitFiles ==
    LET masters == {<<>>, <<Entry(<<"a">>, <<"a">>), Entry(<<"c">>, <<"c">>)>>}
        transes == {<<>>,
                    <<Entry(<<"a">>, <<"A">>)>>,
                    <<Entry(<<"b">>, <<"B">>)>>,
                    <<Entry(<<"a">>, <<"a">>), Entry(<<"b">>, <<"b">>)>>}
        files(m, t) ==
            [p \in (IF m = <<>> THEN {} ELSE {MasterPath})
                   \cup (IF t = <<>> THEN {} ELSE {TransTraitsPath("ko")}) |->
                IF p = MasterPath THEN m ELSE t]
    IN  {files(m, t) : m \in masters, t \in transes}
        \cup {[p \in {MasterPath} |-> <<>>], [p \in {TransTraitsPath("ko")} |-> <<>>]}

TextPath == <<"ko.txt">>

LangArgs == {"ko", "de"}

\* No cycle subset, one cycle, both cycles in an order of the caller's.
MainCycleArgs == {<<>>, <<"core">>, <<"dwl", "core">>}

Snapshot ==
    [pack_en |-> pack_en, pack_tr |-> pack_tr, traits_fs |-> traits_fs, text_fs |-> text_fs]

\* The cards of the English and of the translated packs the pipeline runs on.
PipelineEnCards ==
    {CardWithout("01001"),
     CardWith("01001", <<"a", ".">>),
     CardWith("02001", <<"a", ".", " ", "b", ".">>)}

PipelineCards ==
    {CardWith("01001", <<"a", ".">>),
     CardWith("02001", <<"a", ".", " ", "b", ".">>)}

MainStart ==
    /\ pack_en \in PacksOver(PipelineEnCards)
    /\ pack_tr \in PacksOver(PipelineCards)
    /\ traits_fs \in StartTraitFiles
    /\ text_fs = <<>>
    /\ py \in {2, 3}
    /\ op = [name |-> "start"]
    /\ err = "none"
    /\ written = <<>>
    /\ pre = Snapshot
    /\ pipeline = "none"

\* What every call records.
Called(call, error, wrote) ==
    /\ op' = call
    /\ err' = error
    /\ written' = wrote
    /\ pre' = Snapshot

MakePlaceholder ==
    \E ls \in Listings(TreeOf(pack_en)) :
        LET res == make_placeholder(pack_en, traits_fs, text_fs, ls, py) IN
        /\ traits_fs' = res.traits_fs
        /\ Called([name |-> "make_placeholder"], res.err, <<>>)
        /\ pipeline' = IF res.err = "none" /\ pipeline = "none" THEN "made" ELSE pipeline
        /\ UNCHANGED <<pack_en, pack_tr, text_fs, py, codec_vars, files_vars>>

UpdatePlaceholder ==
    \E code \in LangArgs :
        LET res == update_placeholder(traits_fs, code, py) IN
        /\ traits_fs' = res.traits_fs
        /\ Called([name |-> "update_placeholder", code |-> code], res.err, <<>>)
        /\ pipeline' = IF res.err = "none" /\ pipeline = "made" /\ code = "ko"
                       THEN "seeded" ELSE pipeline
        /\ UNCHANGED <<pack_en, pack_tr, text_fs, py, codec_vars, files_vars>>

UpdateTraits ==
    \E code \in LangArgs, cycles \in MainCycleArgs, no_overwrite \in BOOLEAN,
       ls \in Listings(TreeOf(pack_tr)) :
        LET res == update_traits(pack_en, pack_tr, traits_fs, text_fs,
                                 code, cycles, no_overwrite, ls) IN
        /\ pack_tr' = res.pack_tr
        /\ Called([name |-> "update_traits", code |-> code,
                   no_overwrite |-> no_overwrite], res.err, res.written)
        /\ UNCHANGED <<pack_en, traits_fs, text_fs, py, pipeline, codec_vars, files_vars>>

Json2Txt ==
    \E path_json \in {MasterPath, TransTraitsPath("ko")} :
        LET res == json2txt(traits_fs, text_fs, path_json, TextPath) IN
        /\ text_fs' = res.text_fs
        /\ Called([name |-> "json2txt", path_json |-> path_json], res.err, <<>>)
        /\ UNCHANGED <<pack_en, pack_tr, traits_fs, py, pipeline, codec_vars, files_vars>>

Txt2Json ==
    \E path_json \in {MasterPath, TransTraitsPath("ko")} :
        LET res == txt2json(traits_fs, text_fs, path_json, TextPath, py) IN
        /\ traits_fs' = res.traits_fs
        /\ Called([name |-> "txt2json", path_json |-> path_json], res.err, <<>>)
        /\ UNCHANGED <<pack_en, pack_tr, text_fs, py, pipeline, codec_vars, files_vars>>

Next == MakePlaceholder \/ UpdatePlaceholder \/ UpdateTraits \/ Json2Txt \/ Txt2Json

Init == MainStart /\ CodecIdle /\ FilesIdle

Spec == Init /\ [][Next]_vars

(***************************************************************************)
(* update_traits on its own: one call on any of the translated packs       *)
(***************************************************************************)

TraitsStart ==
    /\ pack_en \in PacksOver(EnCards)
    /\ pack_tr \in PacksOver(TrCards)
    /\ traits_fs \in StartTraitFiles
    /\ text_fs = <<>>
    /\ py \in {2, 3}
    /\ op = [name |-> "start"]
    /\ err = "none"
    /\ written = <<>>
    /\ pre = Snapshot
    /\ pipeline = "none"

TraitsNext == op.name = "start" /\ UpdateTraits

TraitsInit == TraitsStart /\ CodecIdle /\ FilesIdle

SpecTraits == TraitsInit /\ [][TraitsNext]_vars

(***************************************************************************)
(* update_traits: what one call does to the translated packs               *)
(***************************************************************************)

UpdateTraitsCalled == op.name = "update_traits"

\* The translated cards as they were before the call, by file and place.
CardPlaces == {<<f, i>> : f \in DOMAIN pre.pack_tr, i \in 1..2}

CardsBefore ==
    {pl \in CardPlaces : pl[2] \in DOMAIN pre.pack_tr[pl[1]]}

HasEnglish(pl) ==
    /\ pl[1] \in DOMAIN pack_en
    /\ pre.pack_tr[pl[1]][pl[2]].code \in Codes(pack_en[pl[1]])

EnglishOf(pl) ==
    pack_en[pl[1]][IndexOf(pack_en[pl[1]], pre.pack_tr[pl[1]][pl[2]].code)]

\* The card has a traits string, and so has its English card, and they differ.
DiffersFromEnglish(pl) ==
    /\ "traits" \in DOMAIN pre.pack_tr[pl[1]][pl[2]]
    /\ HasEnglish(pl)
    /\ "traits" \in DOMAIN EnglishOf(pl)
    /\ pre.pack_tr[pl[1]][pl[2]].traits # EnglishOf(pl).traits

SameShape ==
    /\ DOMAIN pack_tr = DOMAIN pre.pack_tr
    /\ \A f \in DOMAIN pack_tr : Len(pack_tr[f]) = Len(pre.pack_tr[f])

\* C1: with overwrite disabled, a translated card whose traits string differs
\* from the traits string of the English card with the same code has the
\* same traits (and is the same card) after update_traits as before.
C1_NoOverwriteKeeps ==
    (UpdateTraitsCalled /\ op.no_overwrite)
      => /\ SameShape
         /\ \A pl \in CardsBefore :
               DiffersFromEnglish(pl) => pack_tr[pl[1]][pl[2]] = pre.pack_tr[pl[1]][pl[2]]

\* A call with overwrite disabled that wrote a file in which it kept a card
\* that differs from its English card and changed another card.
C1_Witness ==
    /\ UpdateTraitsCalled /\ op.no_overwrite /\ err = "none"
    /\ \E pl \in CardsBefore :
          /\ DiffersFromEnglish(pl)
          /\ pl[1] \in Range(written)
          /\ pack_tr[pl[1]] # pre.pack_tr[pl[1]]

\* The card is one at which the call looks a trait code up that the trait
\* file of the language does not hold.
MeetsMissingCode(pl) ==
    /\ "traits" \in DOMAIN pre.pack_tr[pl[1]][pl[2]]
    /\ HasEnglish(pl)
    /\ "traits" \in DOMAIN EnglishOf(pl)
    /\ ~(op.no_overwrite /\ pre.pack_tr[pl[1]][pl[2]].traits # EnglishOf(pl).traits)
    /\ TransTraitsPath(op.code) \in DOMAIN traits_fs
    /\ \E x \in Range(_split_traits(EnglishOf(pl).traits)) :
          x \notin Codes(traits_fs[TransTraitsPath(op.code)])

\* C2 as stated: a run that ends with a lookup failure for a trait code has
\* written no file, the files processed before the failure included.
C2_Original ==
    (UpdateTraitsCalled /\ err = "KeyError: trait code")
      => (written = <<>> /\ pack_tr = pre.pack_tr)

\* C2 (amended): a run of update_traits that ends with a lookup failure for a
\* trait code met a card whose English traits hold a code missing from the
\* trait file; no file that holds such a card is written or changed by the
\* run, and no file changes without being written: only files processed
\* before the failure may have been rewritten.
C2_FailureKeepsOffendingFile ==
    UpdateTraitsCalled
      => /\ (err = "KeyError: trait code") => \E pl \in CardsBefore : MeetsMissingCode(pl)
         /\ \A pl \in CardsBefore :
               MeetsMissingCode(pl)
                 => (pl[1] \notin Range(written) /\ pack_tr[pl[1]] = pre.pack_tr[pl[1]])
         /\ SameShape
         /\ \A f \in DOMAIN pack_tr : pack_tr[f] # pre.pack_tr[f] => f \in Range(written)

\* A run that failed on a missing trait code after it had rewritten a file.
C2_Witness ==
    /\ UpdateTraitsCalled /\ err = "KeyError: trait code"
    /\ written # <<>>
    /\ \E pl \in CardsBefore : MeetsMissingCode(pl) /\ pl[1] \notin Range(written)

\* C4: update_traits writes a translated pack file only if the traits string
\* of at least one of its cards changed.
C4_WritesOnlyChanged ==
    UpdateTraitsCalled
      => \A f \in Range(written) : pack_tr[f] # pre.pack_tr[f]

SameButTraits(a, b) ==
    /\ DOMAIN a = DOMAIN b
    /\ \A k \in DOMAIN a \ {"traits"} : a[k] = b[k]

\* C10: update_traits changes nothing but the traits of translated cards: the
\* translated pack files hold the same cards in the same order with every
\* other field as before, a card without traits and a card without an English
\* card of its code are as before, and so are the English packs and the trait
\* files.
C10_OnlyTraitsChange ==
    UpdateTraitsCalled
      => /\ SameShape
         /\ \A pl \in CardsBefore :
               LET before == pre.pack_tr[pl[1]][pl[2]]
                   after  == pack_tr[pl[1]][pl[2]]
               IN  /\ SameButTraits(before, after)
                   /\ "traits" \notin DOMAIN before => after = before
                   /\ ~HasEnglish(pl) => after = before
         /\ pack_en = pre.pack_en
         /\ traits_fs = pre.traits_fs
         /\ text_fs = pre.text_fs

\* A call that rewrote a file of two cards: it changed the traits of one and
\* left the other, which has no traits, as it was.
C10_Witness ==
    /\ UpdateTraitsCalled /\ err = "none"
    /\ \E f \in Range(written) :
          /\ Len(pack_tr[f]) = 2
          /\ \E i, j \in 1..2 :
                /\ "traits" \notin DOMAIN pre.pack_tr[f][i]
                /\ "traits" \in DOMAIN pre.pack_tr[f][j]
                /\ pack_tr[f][j].traits # pre.pack_tr[f][j].traits

(***************************************************************************)
(* update_placeholder on its own: two runs in a row on any trait files     *)
(***************************************************************************)

MaxEntries == 2

PlaceholderCodes == {<<"a">>, <<"b">>, <<"a", "b">>}

MasterEntries == {Entry(c, c) : c \in PlaceholderCodes}
TransEntries == {Entry(c, n) : c \in PlaceholderCodes, n \in {<<"x">>, <<"y">>}}

\* The master file absent or any list; the file of the language likewise.
PlaceholderFiles ==
    LET masters == {<<>>} \cup {<<m>> : m \in ListsUpTo(MasterEntries, MaxEntries)}
        transes == {<<>>} \cup {<<t>> : t \in ListsUpTo(TransEntries, MaxEntries)}
        files(m, t) ==
            [p \in (IF m = <<>> THEN {} ELSE {MasterPath})
                   \cup (IF t = <<>> THEN {} ELSE {TransTraitsPath("ko")}) |->
                IF p = MasterPath THEN m[1] ELSE t[1]]
    IN  {files(m, t) : m \in masters, t \in transes}

PlaceholderStart ==
    /\ pack_en = <<>>
    /\ pack_tr = <<>>
    /\ traits_fs \in PlaceholderFiles
    /\ text_fs = <<>>
    /\ py \in {2, 3}
    /\ op = [name |-> "start"]
    /\ err = "none"
    /\ written = <<>>
    /\ pre = Snapshot
    /\ pipeline = "none"

FirstRun ==
    /\ op.name = "start"
    /\ \E code \in LangArgs :
          LET res == update_placeholder(traits_fs, code, py) IN
          /\ traits_fs' = res.traits_fs
          /\ Called([name |-> "update_placeholder", code |-> code, run |-> 1], res.err, <<>>)
    /\ UNCHANGED <<pack_en, pack_tr, text_fs, py, pipeline, codec_vars, files_vars>>

SecondRun ==
    /\ op.name = "update_placeholder" /\ op.run = 1
    /\ LET res == update_placeholder(traits_fs, op.code, py) IN
          /\ traits_fs' = res.traits_fs
          /\ Called([op EXCEPT !.run = 2], res.err, <<>>)
    /\ UNCHANGED <<pack_en, pack_tr, text_fs, py, pipeline, codec_vars, files_vars>>

PlaceholderNext == FirstRun \/ SecondRun

PlaceholderInit == PlaceholderStart /\ CodecIdle /\ FilesIdle

SpecPlaceholder == PlaceholderInit /\ [][PlaceholderNext]_vars

DataAt(tfs, path) == IF path \in DOMAIN tfs THEN tfs[path] ELSE <<>>

Count(data, e) == Cardinality({i \in DOMAIN data : data[i] = e})

\* C3: update_placeholder(lang) is idempotent.  A run that completes keeps
\* every entry the file of the language held, name included, and adds the
\* master entries whose code the file did not hold, and nothing else; a run
\* that fails loses no entry (it changes no file, or there was no entry in
\* either file and the file of the language is left with no byte); a second
\* run straight after a first leaves the trait files as the first run left
\* them.
C3_PlaceholderIdempotent ==
    /\ (op.name = "update_placeholder" /\ err = "none")
         => LET old    == DataAt(pre.traits_fs, TransTraitsPath(op.code))
                new    == DataAt(traits_fs, TransTraitsPath(op.code))
                master == pre.traits_fs[MasterPath]
            IN  /\ TransTraitsPath(op.code) \in DOMAIN traits_fs
                /\ \A e \in Range(old) \cup Range(new) \cup Range(master) :
                      Count(new, e) = Count(old, e)
                          + (IF e.code \in Codes(old) THEN 0 ELSE Count(master, e))
                /\ traits_fs[MasterPath] = master
    /\ (op.name = "update_placeholder" /\ err # "none")
         => \/ traits_fs = pre.traits_fs
            \/ /\ py = 2 /\ err = "TypeError"
               /\ DataAt(pre.traits_fs, TransTraitsPath(op.code)) = <<>>
               /\ pre.traits_fs[MasterPath] = <<>>
               /\ traits_fs = WriteFile(pre.traits_fs, TransTraitsPath(op.code), EmptyFile)
    /\ (op.name = "update_placeholder" /\ op.run = 2)
         => traits_fs = pre.traits_fs

\* A second run after a first run that had merged master entries into a file
\* of translated names.
C3_Witness ==
    /\ op.name = "update_placeholder" /\ op.run = 2 /\ err = "none"
    /\ traits_fs = pre.traits_fs
    /\ LET new == traits_fs[TransTraitsPath(op.code)]
       IN  /\ Len(new) >= 3
           /\ \E i, j \in DOMAIN new : new[i].name = <<"y">> /\ new[j].name = new[j].code

(***************************************************************************)
(* The text bridge on its own: json2txt, then txt2json on the text as it   *)
(* was written                                                             *)
(***************************************************************************)

MaxBridgeNameLen == 2

BridgeChars == {"x", " ", "\t", "\n"}

BridgeCodes == {<<"a">>, <<"b">>, <<" ", "a">>}

BridgeEntries ==
    {Entry(c, n) : c \in BridgeCodes, n \in StringsUpTo(BridgeChars, MaxBridgeNameLen)}

\* The trait file J: at most two entries, of different codes, in any order.
BridgeFiles ==
    {l \in ListsUpTo(BridgeEntries, 2) : \A i, j \in DOMAIN l : l[i].code = l[j].code => i = j}

BridgeStart ==
    /\ pack_en = <<>>
    /\ pack_tr = <<>>
    /\ traits_fs \in {[p \in {TransTraitsPath("ko")} |-> l] : l \in BridgeFiles}
    /\ text_fs = <<>>
    /\ py \in {2, 3}
    /\ op = [name |-> "start"]
    /\ err = "none"
    /\ written = <<>>
    /\ pre = Snapshot
    /\ pipeline = "none"

BridgeJson2Txt ==
    /\ op.name = "start"
    /\ LET res == json2txt(traits_fs, text_fs, TransTraitsPath("ko"), TextPath) IN
          /\ text_fs' = res.text_fs
          /\ op' = [name |-> "json2txt"]
          /\ err' = res.err
    /\ UNCHANGED <<pack_en, pack_tr, traits_fs, py, written, pre, pipeline,
                   codec_vars, files_vars>>

\* pre keeps the files as they were before json2txt.
BridgeTxt2Json ==
    /\ op.name = "json2txt" /\ err = "none"
    /\ LET res == txt2json(traits_fs, text_fs, TransTraitsPath("ko"), TextPath, py) IN
          /\ traits_fs' = res.traits_fs
          /\ op' = [name |-> "txt2json"]
          /\ err' = res.err
    /\ UNCHANGED <<pack_en, pack_tr, text_fs, py, written, pre, pipeline,
                   codec_vars, files_vars>>

BridgeNext == BridgeJson2Txt \/ BridgeTxt2Json

BridgeInit == BridgeStart /\ CodecIdle /\ FilesIdle

SpecBridge == BridgeInit /\ [][BridgeNext]_vars

\* No tab, no line break, no white space at either end.
PlainText(x) ==
    /\ \A i \in 1..Len(x) : x[i] \notin {"\t", "\n"}
    /\ x = strip(x)

BridgeBefore == pre.traits_fs[TransTraitsPath("ko")]
BridgeAfter == traits_fs[TransTraitsPath("ko")]

\* C5 as stated: after json2txt and txt2json the trait file holds the same
\* code/name entries as before, for any entries of unique codes.
C5_Original ==
    op.name = "txt2json"
      => (BridgeAfter # EmptyFile /\ Range(BridgeAfter) = Range(BridgeBefore))

\* C5 (amended): json2txt followed by txt2json on the unedited text leaves the
\* trait file with the same set of code/name entries as before, for any list
\* of one or more entries of unique codes whose codes and names hold no tab
\* and no line break and have no white space at either end; and if txt2json
\* completes the entries are in the order of their codes.  A file of no entry
\* is left as it is, or (Python 2) txt2json fails and leaves it with no byte.
C5_RoundTrip ==
    /\ (op.name = "txt2json" /\ BridgeBefore # <<>>
           /\ \A i \in DOMAIN BridgeBefore :
                 PlainText(BridgeBefore[i].code) /\ PlainText(BridgeBefore[i].name))
          => /\ BridgeAfter # EmptyFile
             /\ Range(BridgeAfter) = Range(BridgeBefore)
             /\ Len(BridgeAfter) = Len(BridgeBefore)
             /\ err \in {"none", "TypeError"}
             /\ err = "none" => \A i, j \in DOMAIN BridgeAfter :
                                    i < j => StrLess(BridgeAfter[i].code, BridgeAfter[j].code)
    /\ (op.name = "txt2json" /\ BridgeBefore = <<>>)
          => \/ err = "none" /\ BridgeAfter = <<>>
             \/ py = 2 /\ err = "TypeError" /\ BridgeAfter = EmptyFile

\* A round trip that completed and put two plain entries in order.
C5_Witness ==
    /\ op.name = "txt2json" /\ err = "none"
    /\ Len(BridgeBefore) = 2
    /\ \A i \in DOMAIN BridgeBefore :
          PlainText(BridgeBefore[i].code) /\ PlainText(BridgeBefore[i].name)
    /\ BridgeBefore[1].name # <<>>
    /\ BridgeAfter # BridgeBefore
    /\ Range(BridgeAfter) = Range(BridgeBefore)

(***************************************************************************)
(* The script as a whole: the trait files and the pipeline of main         *)
(***************************************************************************)

UniqueSorted(data) ==
    \A i, j \in DOMAIN data : i < j => StrLess(data[i].code, data[j].code)

\* C8: from trait files that are absent or hold unique codes in the order of
\* the codes, after any calls of make_placeholder, update_placeholder and
\* txt2json (and any others of the script), the master trait file and the
\* trait file of every language hold no code twice and are sorted by code;
\* no call that completes leaves a trait file that is not such a list (a
\* file with no byte is left only by a call that fails, and stays).
C8_TraitFilesUniqueSorted ==
    \A p \in DOMAIN traits_fs :
        IF traits_fs[p] = EmptyFile
        THEN err # "none" \/ (p \in DOMAIN pre.traits_fs /\ pre.traits_fs[p] = EmptyFile)
        ELSE UniqueSorted(traits_fs[p])

\* txt2json has completed on a file of two entries that update_placeholder
\* had merged from the master file that make_placeholder had written.
C8_Witness ==
    /\ op.name = "txt2json" /\ err = "none"
    /\ pipeline = "seeded"
    /\ MasterPath \in DOMAIN traits_fs
    /\ Len(traits_fs[op.path_json]) >= 2
    /\ traits_fs # pre.traits_fs

\* The trait codes that occur in the traits of the English cards.
EnglishTraitCodes ==
    LET cards == UNION {Range(pack_en[f]) : f \in DOMAIN pack_en}
    IN  UNION {Range(_split_traits(c.traits)) : c \in {x \in cards : "traits" \in DOMAIN x}}

\* C9: once make_placeholder and then update_placeholder(lang) have
\* completed, every trait code of the English cards is a code of the trait
\* file of the language, and update_traits(lang), with any cycle subset and
\* either overwrite setting, does not fail with a lookup error for a missing
\* trait code; and update_placeholder called while the master trait file is
\* absent fails and writes nothing.
C9_PipelineOrder ==
    /\ pipeline = "seeded"
         => /\ TransTraitsPath("ko") \in DOMAIN traits_fs
            /\ IsJson(traits_fs, TransTraitsPath("ko"))
            /\ EnglishTraitCodes \subseteq Codes(traits_fs[TransTraitsPath("ko")])
            /\ (op.name = "update_traits" /\ op.code = "ko") => err # "KeyError: trait code"
    /\ (op.name = "update_placeholder" /\ MasterPath \notin DOMAIN pre.traits_fs)
         => (err = "IOError" /\ traits_fs = pre.traits_fs)

\* After the pipeline, update_traits has translated a card of two traits, one
\* of which only the seeding had put into the trait file of the language.
C9_Witness ==
    /\ pipeline = "seeded"
    /\ op.name = "update_traits" /\ op.code = "ko" /\ err = "none"
    /\ P2 \in Range(written)
    /\ pack_tr[P2][1].traits = <<"A", ".", " ", "b", ".">>

====
